---- MODULE Spec2Model ----
(***************************************************************************)
(* Query execution engine of cbc_sdk/threathunter/base.py:                 *)
(*   Query             - synchronous paginated search (_search)            *)
(*   AsyncProcessQuery - job submission, status polling with timeout,      *)
(*                       pagination of the job's results                   *)
(* One query object is modelled per behaviour; its class is chosen in      *)
(* Init.  The backend (validation, job status, pages) is the environment:  *)
(* the item count and the advertised num_available are fixed per           *)
(* behaviour, every status response is chosen freely.                      *)
(***************************************************************************)
EXTENDS Integers, Sequences, FiniteSets, TLC

\* ------------------------------------------------------------------ bounds
MaxItems == 3        \* items held by the backend: 0..MaxItems
MaxOver == 1         \* num_available may exceed the item count by up to this
MaxStart == 1        \* start offsets passed to _search: 0..MaxStart
MaxRows == 2         \* row limits passed to _search: 0..MaxRows (0 = none)
MaxSearchers == 1    \* contacted / completed in a status response
MaxCount == 4        \* request counters saturate here
MaxClock == 2000     \* the clock saturates here (milliseconds)
SyncBatch == 2       \* page size of Query._search (self._batch_size, scaled)
MaxTokens == 3       \* clause tokens in a collapsed predicate string
MaxYield == 1        \* items each of two query objects yields per iteration
MaxSortCalls == 3    \* sort_by calls followed on one query
MaxTreeFetches == 3  \* the tree backend answers complete by this fetch
AsyncBatch == 1      \* page size of the job results fetch (rows=10, scaled)

\* ------------------------------------------------------- program constants
PollInterval == 500  \* time.sleep(.5)

None == "None"
\* A dict's entry for one key: Absent when the dict does not hold the key,
\* <<v>> when it holds the value v.
Absent == <<>>
Tokens == {"job1", "job2"}
Workers == {"w1", "w2"}
TimeoutValues == {0, 400, 900}
ClockStarts == {0, PollInterval}

Min(a, b) == IF a < b THEN a ELSE b
Max(a, b) == IF a > b THEN a ELSE b
CeilDiv(a, b) == (a + b - 1) \div b
Inc(n) == Min(n + 1, MaxCount)

VARIABLES
    \* environment, fixed per behaviour
    kind,                \* class of the query object
    nItems,              \* items the backend holds for the query
    num_available,       \* total the backend advertises in every page
    valid,               \* answer of the validation endpoint
    now,                 \* time.time() * 1000
    \* fields of the query object
    query_token, timeout, timed_out, submit_time, total_results, count_valid,
    \* frame of the running operation
    pc, op, start, rows, current, numrows, rows_fetched, args_start,
    results, idx, searchers_contacted, searchers_completed,
    \* what the caller and the transport observe
    yielded, outcome, ret,
    n_validate, n_submit, n_results, n_search, n_received,
    total_submits, always_running,
    status_polled,       \* a job status GET was sent in this operation
    total_validations,   \* validation requests sent in the query's lifetime
    validated_sort,      \* 'sort' entry of the last validation request, if any
    posted_sort,         \* 'sort' entry of the last job-submission body, if any
    \* AsyncProcessQuery.sort_by
    sort,                \* self._sort
    default_args,        \* the 'sort' entry of self._default_args
    sort_calls,          \* the sort_by calls made so far, in order
    \* history of count()
    \* TreeQuery
    args,                \* self._args, as a set of <<key, value>> pairs
    children,            \* results["nodes"]["children"] in _perform_query
    incomplete_results,  \* results["incomplete_results"] in _perform_query
    responses,           \* the responses received by this _perform_query
    \* two callers sharing one query object
    wpc,                 \* where each worker stands in its operation
    wop,                 \* the operation each worker runs
    wtok,                \* the job id each worker's submission got back
    polled_by,           \* <<worker, token>>: the worker polled that token
    \* Query._get_query_parameters
    predicate,           \* the collapsed predicate string, as clause tokens
    builder_guid,        \* self._query_builder._process_guid
    payload,             \* what the last _get_query_parameters returned
    \* two query objects side by side
    queries,             \* the attributes of each query object
    lists,               \* the list objects on the heap, by identity
    \* history of iterations
    first_run,           \* <<yielded>> of a finished iteration that was repeated
    first_count          \* <<v, n>> once the first count() returned v after
                         \* n results GETs, <<>> before

env == <<kind, nItems, num_available, valid>>
fields == <<query_token, timeout, timed_out, submit_time, total_results, count_valid>>
frame == <<pc, op, start, rows, current, numrows, rows_fetched, args_start,
           results, idx, searchers_contacted, searchers_completed>>
obs == <<yielded, outcome, ret, n_validate, n_submit, n_results,
         n_search, n_received, total_submits, always_running>>
wire == <<total_validations, validated_sort, posted_sort>>
sorting == <<sort, default_args, sort_calls>>
builder == <<sorting, args>>
history == <<first_count>>
treeframe == <<children, incomplete_results, responses>>
workers == <<wpc, wop, wtok, polled_by>>
params == <<predicate, builder_guid, payload>>
instances == <<queries, lists>>
extra == <<params, instances, first_run>>
rest == <<builder, history, treeframe, workers, extra>>
vars == <<env, now, fields, frame, obs, status_polled, wire, rest>>

\* ----------------------------------------------------------------- backend
\* Up to n items beginning with item number first (items are numbered 1..nItems).
ItemsFrom(first, n) ==
    [i \in 1..Max(0, Min(n, nItems - first + 1)) |-> first + i - 1]

\* The search endpoint: start is 1-based, an omitted start (0 here) is item 1.
SearchPage(argstart) ==
    ItemsFrom(IF argstart = 0 THEN 1 ELSE argstart, SyncBatch)

\* The job results endpoint: ?start=current is the number of items to skip.
ResultsPage(cur) == ItemsFrom(cur + 1, AsyncBatch)

\* ------------------------------------------------------------ initial state
\* Query.__init__ / AsyncProcessQuery.__init__: no token, timeout 0, not timed
\* out, count not valid; no operation running.
Constructed ==
    /\ query_token = None /\ timeout = 0 /\ timed_out = FALSE
    /\ submit_time = 0 /\ total_results = 0 /\ count_valid = FALSE
    /\ pc = "idle" /\ op = "none" /\ start = 0 /\ rows = 0
    /\ current = 0 /\ numrows = 0 /\ rows_fetched = 0 /\ args_start = 0
    /\ results = <<>> /\ idx = 0
    /\ searchers_contacted = 0 /\ searchers_completed = 0
    /\ yielded = <<>> /\ outcome = "none" /\ ret = 0
    /\ n_validate = 0 /\ n_submit = 0 /\ n_results = 0 /\ n_search = 0
    /\ n_received = 0 /\ total_submits = 0 /\ always_running = TRUE
    /\ status_polled = FALSE /\ total_validations = 0
    /\ validated_sort = Absent /\ posted_sort = Absent
    /\ sort = <<>> /\ default_args = Absent /\ sort_calls = <<>>
    /\ first_count = <<>>
    /\ args = {} /\ children = <<>> /\ incomplete_results = FALSE
    /\ responses = <<>>
    /\ wpc = [w \in Workers |-> "ready"] /\ wop = [w \in Workers |-> "none"]
    /\ wtok = [w \in Workers |-> None] /\ polled_by = {}
    /\ predicate = <<>> /\ builder_guid = None /\ payload = <<>>
    /\ queries = <<>> /\ lists = <<>> /\ first_run = <<>>

\* One query object of one of the classes, and the backend it talks to. A
\* TreeQuery uses neither the search backend nor the clock.
Init ==
    /\ \/ /\ kind \in {"Query", "AsyncProcessQuery"}
          /\ nItems \in 0..MaxItems
          /\ num_available \in Max(0, nItems - 1)..(nItems + MaxOver)
          /\ valid \in BOOLEAN
          /\ now \in ClockStarts
       \/ /\ kind = "TreeQuery"
          /\ nItems = 0 /\ num_available = 0 /\ valid = TRUE /\ now = 0
    /\ Constructed

\* ----------------------------------------------------- request parameters
\* _get_query_parameters: args = self._default_args.copy(); only the 'sort'
\* entry is tracked.
GetQueryParameters == [sort |-> default_args]

\* The dict args after _validate(args) ran on it: args.pop('sort', None)
\* removes the entry from the caller's dict, which is also what is sent to
\* the validation endpoint.
Validated(a) == [a EXCEPT !.sort = Absent]

\* The body _submit posts: the same dict object it handed to _validate.
SubmissionBody == Validated(GetQueryParameters)

\* ------------------------------------------------- AsyncProcessQuery, pure
\* Mutant: the already-submitted guard never fires.
AlreadySubmitted_Never == FALSE

\* "if self._query_token: raise ApiError(...)" in _submit.
AlreadySubmitted == query_token # None

\* Mutant: the callers of _submit never find the token missing.
NeedsSubmit_Never == FALSE

\* "if not self._query_token: self._submit()" in _still_querying and _search.
NeedsSubmit == query_token = None

\* Mutant: _submit without its already-submitted guard.
Submit_NoGuard(tok) ==
    IF ~valid
    THEN [raised |-> "InvalidQuery", query_token |-> query_token,
          timed_out |-> timed_out, submit_time |-> submit_time,
          validations |-> 1, posts |-> 0]
    ELSE [raised |-> "", query_token |-> tok,
          timed_out |-> FALSE, submit_time |-> now,
          validations |-> 1, posts |-> 1]

\* Mutant: _submit validates before it looks at the token.
Submit_ValidateFirst(tok) ==
    IF ~valid
    THEN [raised |-> "InvalidQuery", query_token |-> query_token,
          timed_out |-> timed_out, submit_time |-> submit_time,
          validations |-> 1, posts |-> 0]
    ELSE IF AlreadySubmitted
    THEN [raised |-> "AlreadySubmitted", query_token |-> query_token,
          timed_out |-> timed_out, submit_time |-> submit_time,
          validations |-> 1, posts |-> 0]
    ELSE [raised |-> "", query_token |-> tok,
          timed_out |-> FALSE, submit_time |-> now,
          validations |-> 1, posts |-> 1]

\* _submit: the guard, validation, the POST, then token / timed_out /
\* submit_time.  raised names the exception, "" when it returns.
Submit(tok) ==
    IF AlreadySubmitted
    THEN [raised |-> "AlreadySubmitted", query_token |-> query_token,
          timed_out |-> timed_out, submit_time |-> submit_time,
          validations |-> 0, posts |-> 0]
    ELSE IF ~valid
    THEN [raised |-> "InvalidQuery", query_token |-> query_token,
          timed_out |-> timed_out, submit_time |-> submit_time,
          validations |-> 1, posts |-> 0]
    ELSE [raised |-> "", query_token |-> tok,
          timed_out |-> FALSE, submit_time |-> now,
          validations |-> 1, posts |-> 1]

\* What a caller that submits only when it has no token gets.
SubmitIfNeeded(tok) ==
    IF NeedsSubmit THEN Submit(tok)
    ELSE [raised |-> "", query_token |-> query_token,
          timed_out |-> timed_out, submit_time |-> submit_time,
          validations |-> 0, posts |-> 0]

\* Mutant: _still_querying without the "contacted == 0" branch.
StillQuerying_NoZeroBranch(contacted, completed, tmo, elapsed, was_timed_out) ==
    IF completed < contacted
    THEN IF tmo # 0 /\ elapsed > tmo
         THEN [ret |-> FALSE, timed_out |-> TRUE]
         ELSE [ret |-> TRUE, timed_out |-> was_timed_out]
    ELSE [ret |-> FALSE, timed_out |-> was_timed_out]

\* Mutant: _still_querying without the "self._timeout != 0" test, so that a
\* timeout of 0 is a deadline of 0 ms.
StillQuerying_ZeroDeadline(contacted, completed, tmo, elapsed, was_timed_out) ==
    IF contacted = 0
    THEN [ret |-> TRUE, timed_out |-> was_timed_out]
    ELSE IF completed < contacted
    THEN IF elapsed > tmo
         THEN [ret |-> FALSE, timed_out |-> TRUE]
         ELSE [ret |-> TRUE, timed_out |-> was_timed_out]
    ELSE [ret |-> FALSE, timed_out |-> was_timed_out]

\* The decision of _still_querying on one status response: the value it
\* returns and the value of self._timed_out afterwards.
StillQuerying(contacted, completed, tmo, elapsed, was_timed_out) ==
    IF contacted = 0
    THEN [ret |-> TRUE, timed_out |-> was_timed_out]
    ELSE IF completed < contacted
    THEN IF tmo # 0 /\ elapsed > tmo
         THEN [ret |-> FALSE, timed_out |-> TRUE]
         ELSE [ret |-> TRUE, timed_out |-> was_timed_out]
    ELSE [ret |-> FALSE, timed_out |-> was_timed_out]

\* Mutant: _count never uses the cached total.
CountCached_Never == FALSE

\* "if self._count_valid: return self._total_results" in _count.
CountCached == count_valid

\* Mutant: the check of self._timed_out after the polling loop is missing.
RaisesTimeout_Never == FALSE

\* "if self._timed_out: raise TimeoutError(...)" in _count and _search.
RaisesTimeout == timed_out

\* Mutant: the row limit compared one item late.
AsyncRowLimit_Late(r, fetched) == r # 0 /\ fetched > r

\* "if rows and rows_fetched >= rows" in AsyncProcessQuery._search.
AsyncRowLimit(r, fetched) == r # 0 /\ fetched >= r

\* End of one pass of "while still_fetching": whether another page is fetched.
AsyncContinue(cur, total, still_fetching) ==
    IF cur >= total THEN FALSE ELSE still_fetching

\* ------------------------------------------------------------- Query, pure
\* "if rows and numrows == rows" in Query._search.
SyncRowLimit(r, n) == r # 0 /\ n = r

\* Mutant: the next start computed for a 0-based backend.
NextStart_ZeroBased(cur) == cur

\* args['start'] = current + 1
NextStart(cur) == cur + 1

\* Mutant: the empty page ends the loop without correcting the total.
SyncAfterPage_NoClamp(cur, total, page, still_querying) ==
    IF cur >= total THEN [continue |-> FALSE, total |-> total]
    ELSE IF page = <<>> THEN [continue |-> FALSE, total |-> total]
    ELSE [continue |-> still_querying, total |-> total]

\* End of one pass of "while still_querying": whether another page is
\* fetched, and self._total_results afterwards.
SyncAfterPage(cur, total, page, still_querying) ==
    IF cur >= total THEN [continue |-> FALSE, total |-> total]
    ELSE IF page = <<>> THEN [continue |-> FALSE, total |-> cur]
    ELSE [continue |-> still_querying, total |-> total]

\* ----------------------------------------------------------------- actions
\* The caller invokes an operation on the idle query: a fresh frame, and the
\* observations of the previous operation are cleared.
Enter(o, p, s, r) ==
    /\ pc = "idle"
    /\ pc' = p /\ op' = o /\ start' = s /\ rows' = r
    /\ current' = 0 /\ numrows' = 0 /\ rows_fetched' = 0 /\ args_start' = 0
    /\ results' = <<>> /\ idx' = 0
    /\ searchers_contacted' = 0 /\ searchers_completed' = 0
    /\ yielded' = <<>> /\ outcome' = "none" /\ ret' = 0
    /\ n_validate' = 0 /\ n_submit' = 0 /\ n_results' = 0 /\ n_search' = 0
    /\ n_received' = 0
    /\ status_polled' = FALSE
    /\ children' = <<>> /\ incomplete_results' = FALSE /\ responses' = <<>>
    /\ UNCHANGED <<env, now, fields, total_submits, always_running, wire,
                   builder, history, workers, extra>>

\* The fields _submit writes and the requests it sends.
ApplySubmit(s) ==
    /\ query_token' = s.query_token
    /\ timed_out' = s.timed_out
    /\ submit_time' = s.submit_time
    /\ n_validate' = Min(n_validate + s.validations, MaxCount)
    /\ n_submit' = Min(n_submit + s.posts, MaxCount)
    /\ total_submits' = Min(total_submits + s.posts, MaxCount)
    /\ total_validations' = Min(total_validations + s.validations, MaxCount)
    /\ validated_sort' = IF s.validations = 1
                         THEN Validated(GetQueryParameters).sort
                         ELSE validated_sort
    /\ posted_sort' = IF s.posts = 1 THEN SubmissionBody.sort ELSE posted_sort

\* AsyncProcessQuery.timeout(msecs)
TimeoutCall(msecs) ==
    /\ kind = "AsyncProcessQuery" /\ pc = "idle"
    /\ timeout' = msecs
    /\ UNCHANGED <<env, now, frame, obs, query_token, timed_out, submit_time,
                   total_results, count_valid>>
    /\ UNCHANGED <<status_polled, wire, rest>>

\* query._submit() called by the user.
SubmitCall ==
    /\ kind = "AsyncProcessQuery"
    /\ Enter("submit", "submit", 0, 0)

SubmitBody(tok) ==
    /\ pc = "submit"
    /\ LET s == Submit(tok) IN
        /\ ApplySubmit(s)
        /\ pc' = "idle"
        /\ outcome' = IF s.raised = "" THEN "submitted" ELSE s.raised
    /\ UNCHANGED <<env, now, timeout, total_results, count_valid, op, start, rows,
                   current, numrows, rows_fetched, args_start, results, idx,
                   searchers_contacted, searchers_completed, yielded, ret,
                   n_results, n_search, n_received, always_running>>
    /\ UNCHANGED <<status_polled, rest>>

\* AsyncProcessQuery._count(): the cached value, or into the polling loop.
CountCall ==
    /\ kind = "AsyncProcessQuery"
    /\ Enter("count", "count", 0, 0)

CountBody ==
    /\ kind = "AsyncProcessQuery" /\ pc = "count"
    /\ IF CountCached
       THEN /\ pc' = "idle" /\ outcome' = "count" /\ ret' = total_results
            /\ first_count' = IF first_count = <<>> THEN <<total_results, 0>>
                                                    ELSE first_count
       ELSE /\ pc' = "poll" /\ UNCHANGED <<outcome, ret, first_count>>
    /\ UNCHANGED <<env, now, fields, op, start, rows, current, numrows,
                   rows_fetched, args_start, results, idx, searchers_contacted,
                   searchers_completed, yielded, n_validate, n_submit, n_results,
                   n_search, n_received, total_submits, always_running>>
    /\ UNCHANGED <<status_polled, wire, builder, treeframe, workers, extra>>

\* Mutant: _search as an ordinary function, whose call already validates.
IterCall_Eager(s, r) ==
    /\ kind \in {"Query", "AsyncProcessQuery"}
    /\ pc = "idle"
    /\ pc' = "created" /\ op' = "search" /\ start' = s /\ rows' = r
    /\ current' = 0 /\ numrows' = 0 /\ rows_fetched' = 0 /\ args_start' = 0
    /\ results' = <<>> /\ idx' = 0
    /\ searchers_contacted' = 0 /\ searchers_completed' = 0
    /\ yielded' = <<>> /\ outcome' = "none" /\ ret' = 0
    /\ n_validate' = 1 /\ n_submit' = 0 /\ n_results' = 0 /\ n_search' = 0
    /\ n_received' = 0
    /\ status_polled' = FALSE
    /\ children' = <<>> /\ incomplete_results' = FALSE /\ responses' = <<>>
    /\ total_validations' = Inc(total_validations)
    /\ UNCHANGED <<env, now, fields, total_submits, always_running,
                   validated_sort, posted_sort, builder, history, workers, extra>>

\* _search(start, rows) is a generator: calling it runs nothing.
IterCall(s, r) ==
    /\ kind \in {"Query", "AsyncProcessQuery"}
    /\ Enter("search", "created", s, r)

\* First next() on AsyncProcessQuery._search: submit when there is no token.
AsyncSearchStart(tok) ==
    /\ kind = "AsyncProcessQuery" /\ pc = "created"
    /\ LET s == SubmitIfNeeded(tok) IN
        /\ ApplySubmit(s)
        /\ IF s.raised # ""
           THEN pc' = "idle" /\ outcome' = s.raised
           ELSE pc' = "poll" /\ UNCHANGED outcome
    /\ UNCHANGED <<env, now, timeout, total_results, count_valid, op, start, rows,
                   current, numrows, rows_fetched, args_start, results, idx,
                   searchers_contacted, searchers_completed, yielded, ret,
                   n_results, n_search, n_received, always_running>>
    /\ UNCHANGED <<status_polled, rest>>

\* One evaluation of self._still_querying() as the loop condition: submit when
\* there is no token, GET the job status, decide.
PollStatus(contacted, completed, tok) ==
    /\ kind = "AsyncProcessQuery" /\ pc = "poll"
    /\ LET s == SubmitIfNeeded(tok) IN
        /\ n_validate' = Min(n_validate + s.validations, MaxCount)
        /\ n_submit' = Min(n_submit + s.posts, MaxCount)
        /\ total_submits' = Min(total_submits + s.posts, MaxCount)
        /\ total_validations' = Min(total_validations + s.validations, MaxCount)
        /\ validated_sort' = IF s.validations = 1
                             THEN Validated(GetQueryParameters).sort
                             ELSE validated_sort
        /\ posted_sort' = IF s.posts = 1 THEN SubmissionBody.sort ELSE posted_sort
        /\ status_polled' = (status_polled \/ s.raised = "")
        /\ query_token' = s.query_token
        /\ submit_time' = s.submit_time
        /\ IF s.raised # ""
           THEN /\ pc' = "idle" /\ outcome' = s.raised
                /\ timed_out' = s.timed_out
                /\ UNCHANGED <<searchers_contacted, searchers_completed,
                               always_running>>
           ELSE LET q == StillQuerying(contacted, completed, timeout,
                                       now - s.submit_time, s.timed_out) IN
                /\ timed_out' = q.timed_out
                /\ pc' = IF q.ret THEN "sleep" ELSE "check"
                /\ searchers_contacted' = contacted
                /\ searchers_completed' = completed
                /\ always_running' = (always_running /\ completed < contacted)
                /\ UNCHANGED outcome
    /\ UNCHANGED <<env, now, timeout, total_results, count_valid, op, start, rows,
                   current, numrows, rows_fetched, args_start, results, idx,
                   yielded, ret, n_results, n_search, n_received>>
    /\ UNCHANGED rest

\* Mutant: a polling loop that sleeps two intervals between polls.
Sleep_Twice ==
    /\ pc = "sleep"
    /\ now' = Min(now + 2 * PollInterval, MaxClock)
    /\ pc' = "poll"
    /\ searchers_contacted' = 0 /\ searchers_completed' = 0
    /\ UNCHANGED <<env, fields, obs, op, start, rows, current, numrows,
                   rows_fetched, args_start, results, idx>>
    /\ UNCHANGED <<status_polled, wire, rest>>

\* time.sleep(.5) in the body of the polling loop.
Sleep ==
    /\ pc = "sleep"
    /\ now' = Min(now + PollInterval, MaxClock)
    /\ pc' = "poll"
    /\ searchers_contacted' = 0 /\ searchers_completed' = 0
    /\ UNCHANGED <<env, fields, obs, op, start, rows, current, numrows,
                   rows_fetched, args_start, results, idx>>
    /\ UNCHANGED <<status_polled, wire, rest>>

\* After the polling loop of _count or _search: the TimeoutError.
RaiseTimeout ==
    /\ pc = "check" /\ RaisesTimeout
    /\ pc' = "idle" /\ outcome' = "TimeoutError"
    /\ searchers_contacted' = 0 /\ searchers_completed' = 0
    /\ UNCHANGED <<env, now, fields, op, start, rows, current, numrows,
                   rows_fetched, args_start, results, idx, yielded, ret,
                   n_validate, n_submit, n_results, n_search, n_received,
                   total_submits, always_running>>
    /\ UNCHANGED <<status_polled, wire, rest>>

\* Mutant: _count that returns num_available without storing it.
CountFetch_StaleTotal ==
    /\ pc = "check" /\ ~RaisesTimeout /\ op = "count"
    /\ n_results' = Inc(n_results)
    /\ total_results' = total_results
    /\ count_valid' = TRUE
    /\ ret' = num_available
    /\ pc' = "idle" /\ outcome' = "count"
    /\ searchers_contacted' = 0 /\ searchers_completed' = 0
    /\ UNCHANGED <<env, now, query_token, timeout, timed_out, submit_time, op,
                   start, rows, current, numrows, rows_fetched, args_start,
                   results, idx, yielded, n_validate, n_submit, n_search,
                   n_received, total_submits, always_running>>
    /\ first_count' = IF first_count = <<>> THEN <<num_available, 1>>
                                           ELSE first_count
    /\ UNCHANGED <<status_polled, wire, builder, treeframe, workers, extra>>

\* After the polling loop of _count: one GET of the results for num_available.
CountFetch ==
    /\ pc = "check" /\ ~RaisesTimeout /\ op = "count"
    /\ n_results' = Inc(n_results)
    /\ total_results' = num_available
    /\ count_valid' = TRUE
    /\ ret' = num_available
    /\ pc' = "idle" /\ outcome' = "count"
    /\ searchers_contacted' = 0 /\ searchers_completed' = 0
    /\ UNCHANGED <<env, now, query_token, timeout, timed_out, submit_time, op,
                   start, rows, current, numrows, rows_fetched, args_start,
                   results, idx, yielded, n_validate, n_submit, n_search,
                   n_received, total_submits, always_running>>
    /\ first_count' = IF first_count = <<>> THEN <<num_available, 1>>
                                           ELSE first_count
    /\ UNCHANGED <<status_polled, wire, builder, treeframe, workers, extra>>

\* Mutant: a cursor that is not set back to start when fetching begins.
AsyncSearchBegin_NoReset ==
    /\ pc = "check" /\ ~RaisesTimeout /\ op = "search"
    /\ current' = current /\ rows_fetched' = 0
    /\ pc' = "fetch"
    /\ searchers_contacted' = 0 /\ searchers_completed' = 0
    /\ UNCHANGED <<env, now, fields, obs, op, start, rows, numrows, args_start,
                   results, idx>>
    /\ UNCHANGED <<status_polled, wire, rest>>

\* After the polling loop of _search: current = start, rows_fetched = 0.
AsyncSearchBegin ==
    /\ pc = "check" /\ ~RaisesTimeout /\ op = "search"
    /\ current' = start /\ rows_fetched' = 0
    /\ pc' = "fetch"
    /\ searchers_contacted' = 0 /\ searchers_completed' = 0
    /\ UNCHANGED <<env, now, fields, obs, op, start, rows, numrows, args_start,
                   results, idx>>
    /\ UNCHANGED <<status_polled, wire, rest>>

\* The end of one pass of "while still_fetching" in AsyncProcessQuery._search.
AsyncEndOfPass(cur, still_fetching) ==
    IF AsyncContinue(cur, total_results', still_fetching)
    THEN pc' = "fetch" /\ UNCHANGED outcome
    ELSE pc' = "idle" /\ outcome' = "done"

\* One GET of the job results at ?start=current, up to the first yield.
AsyncFetch ==
    /\ kind = "AsyncProcessQuery" /\ pc = "fetch"
    /\ LET page == ResultsPage(current) IN
        /\ n_results' = Inc(n_results)
        /\ n_received' = n_received + Len(page)
        /\ total_results' = num_available
        /\ count_valid' = TRUE
        /\ results' = page
        /\ IF page # <<>>
           THEN /\ yielded' = Append(yielded, page[1])
                /\ idx' = 1
                /\ pc' = "suspended" /\ UNCHANGED outcome
           ELSE /\ AsyncEndOfPass(current, TRUE)
                /\ UNCHANGED <<yielded, idx>>
    /\ UNCHANGED <<env, now, query_token, timeout, timed_out, submit_time, op,
                   start, rows, current, numrows, rows_fetched, args_start,
                   searchers_contacted, searchers_completed, ret, n_validate,
                   n_submit, n_search, total_submits, always_running>>
    /\ UNCHANGED <<status_polled, wire, rest>>

\* next() on the suspended generator: the code after "yield item" up to the
\* next yield, the next request or the end.
AsyncResume ==
    /\ kind = "AsyncProcessQuery" /\ pc = "suspended"
    /\ current' = current + 1
    /\ rows_fetched' = rows_fetched + 1
    /\ UNCHANGED total_results
    /\ IF AsyncRowLimit(rows, rows_fetched + 1)
       THEN AsyncEndOfPass(current + 1, FALSE) /\ UNCHANGED <<yielded, idx>>
       ELSE IF idx < Len(results)
       THEN /\ yielded' = Append(yielded, results[idx + 1])
            /\ idx' = idx + 1
            /\ UNCHANGED <<pc, outcome>>
       ELSE AsyncEndOfPass(current + 1, TRUE) /\ UNCHANGED <<yielded, idx>>
    /\ UNCHANGED <<env, now, query_token, timeout, timed_out, submit_time,
                   count_valid, op, start, rows, numrows, args_start, results,
                   searchers_contacted, searchers_completed, ret, n_validate,
                   n_submit, n_results, n_search, n_received, total_submits,
                   always_running>>
    /\ UNCHANGED <<status_polled, wire, rest>>

\* len(query) on the synchronous query.
SyncCountCall ==
    /\ kind = "Query"
    /\ Enter("count", "count", 0, 0)

\* Query._count: the search POST is sent with the parameters as built, with
\* no call of _validate. What the backend answers to a predicate it holds
\* invalid is not fixed by the client: a total, or an error response.
SyncCountBody ==
    /\ kind = "Query" /\ pc = "count"
    /\ n_search' = Inc(n_search)
    /\ \E answered \in (IF valid THEN {TRUE} ELSE BOOLEAN) :
          IF answered
          THEN /\ total_results' = num_available
               /\ count_valid' = TRUE
               /\ ret' = num_available
               /\ outcome' = "count"
          ELSE /\ outcome' = "ServerError"
               /\ UNCHANGED <<total_results, count_valid, ret>>
    /\ pc' = "idle"
    /\ UNCHANGED <<env, now, query_token, timeout, timed_out, submit_time, op,
                   start, rows, current, numrows, rows_fetched, args_start,
                   results, idx, searchers_contacted, searchers_completed,
                   yielded, n_validate, n_submit, n_results, n_received,
                   total_submits, always_running>>
    /\ UNCHANGED <<status_polled, wire, rest>>

\* First next() on Query._search: parameters, validation, cursor.
SyncSearchStart ==
    /\ kind = "Query" /\ pc = "created"
    /\ n_validate' = Inc(n_validate)
    /\ IF ~valid
       THEN /\ pc' = "idle" /\ outcome' = "InvalidQuery"
            /\ UNCHANGED <<args_start, current, numrows>>
       ELSE /\ args_start' = start
            /\ current' = start
            /\ numrows' = 0
            /\ pc' = "fetch" /\ UNCHANGED outcome
    /\ UNCHANGED <<env, now, fields, op, start, rows, rows_fetched, results, idx,
                   searchers_contacted, searchers_completed, yielded, ret,
                   n_submit, n_results, n_search, n_received, total_submits,
                   always_running>>
    /\ total_validations' = Inc(total_validations)
    /\ validated_sort' = Validated(GetQueryParameters).sort
    /\ UNCHANGED <<status_polled, posted_sort, rest>>

\* The end of one pass of "while still_querying" in Query._search.
SyncEndOfPass(cur, total, page, still_querying) ==
    LET a == SyncAfterPage(cur, total, page, still_querying) IN
    /\ args_start' = NextStart(cur)
    /\ total_results' = a.total
    /\ IF a.continue
       THEN pc' = "fetch" /\ UNCHANGED outcome
       ELSE pc' = "idle" /\ outcome' = "done"

\* One POST to the search endpoint with args, up to the first yield.
SyncFetch ==
    /\ kind = "Query" /\ pc = "fetch"
    /\ LET page == SearchPage(args_start) IN
        /\ n_search' = Inc(n_search)
        /\ n_received' = n_received + Len(page)
        /\ count_valid' = TRUE
        /\ results' = page
        /\ IF page # <<>>
           THEN /\ yielded' = Append(yielded, page[1])
                /\ idx' = 1
                /\ total_results' = num_available
                /\ pc' = "suspended" /\ UNCHANGED <<outcome, args_start>>
           ELSE /\ SyncEndOfPass(current, num_available, page, TRUE)
                /\ UNCHANGED <<yielded, idx>>
    /\ UNCHANGED <<env, now, query_token, timeout, timed_out, submit_time, op,
                   start, rows, current, numrows, rows_fetched,
                   searchers_contacted, searchers_completed, ret, n_validate,
                   n_submit, n_results, total_submits, always_running>>
    /\ UNCHANGED <<status_polled, wire, rest>>

\* next() on the suspended generator of Query._search.
SyncResume ==
    /\ kind = "Query" /\ pc = "suspended"
    /\ current' = current + 1
    /\ numrows' = numrows + 1
    /\ IF SyncRowLimit(rows, numrows + 1)
       THEN /\ SyncEndOfPass(current + 1, total_results, results, FALSE)
            /\ UNCHANGED <<yielded, idx>>
       ELSE IF idx < Len(results)
       THEN /\ yielded' = Append(yielded, results[idx + 1])
            /\ idx' = idx + 1
            /\ UNCHANGED <<pc, outcome, args_start, total_results>>
       ELSE /\ SyncEndOfPass(current + 1, total_results, results, TRUE)
            /\ UNCHANGED <<yielded, idx>>
    /\ UNCHANGED <<env, now, query_token, timeout, timed_out, submit_time,
                   count_valid, op, start, rows, rows_fetched, results,
                   searchers_contacted, searchers_completed, ret, n_validate,
                   n_submit, n_results, n_search, n_received, total_submits,
                   always_running>>
    /\ UNCHANGED <<status_polled, wire, rest>>

\* Time passes between the caller's steps once a job exists (the clock is
\* read only to compare with the submission time).
\* ---------------------------------------------------------------- TreeQuery
\* The keys a caller passes to where() / and_().
TreeKeys == {"process_guid", "node_limit"}

\* The children lists a tree response may carry.
ChildLists == {<<>>, <<"a">>, <<"b">>, <<"c">>}

\* The values a caller passes for a key.
TreeValues == {"v1", "v2"}

\* The keys of the dict d.
Keys(d) == {p[1] : p \in d}

\* The dicts over TreeKeys and TreeValues, and those a call may pass.
Dicts ==
    {d \in SUBSET (TreeKeys \X TreeValues) :
        \A p, q \in d : p[1] = q[1] => p = q}
Kwargs == Dicts \ {{}}

\* dict(self._args, **kwargs): the entries of kwargs, and the entries of the
\* old dict for the keys kwargs does not hold.
Where(a, kwargs) ==
    {p \in a : p[1] \notin Keys(kwargs)} \cup kwargs

\* where(**kwargs) and and_(**kwargs): self._args = dict(self._args, **kwargs).
TreeWhere(kwargs) ==
    /\ kind = "TreeQuery" /\ pc = "idle"
    /\ args' = Where(args, kwargs)
    /\ UNCHANGED <<env, now, fields, frame, obs, status_polled, wire, sorting,
                   history, treeframe, workers, extra>>

\* Mutant: or_ stores its arguments as where() does before it raises.
OrArgs_AsWhere(a, kwargs) == Where(a, kwargs)

\* self._args after or_(**kwargs): the method only raises.
OrArgs(a, kwargs) == a

\* or_(**kwargs): raise ApiError(".or_() cannot be called on Tree queries").
TreeOr(kwargs) ==
    /\ kind = "TreeQuery" /\ pc = "idle"
    /\ op' = "or_" /\ outcome' = "UnsupportedOperation"
    /\ args' = OrArgs(args, kwargs)
    /\ UNCHANGED <<env, now, fields, pc, start, rows, current, numrows,
                   rows_fetched, args_start, results, idx, searchers_contacted,
                   searchers_completed, yielded, ret, n_validate, n_submit,
                   n_results, n_search, n_received, total_submits,
                   always_running>>
    /\ UNCHANGED <<status_polled, wire, sorting, history, treeframe, workers,
                   extra>>

\* The caller runs the tree query.
TreeCall ==
    /\ kind = "TreeQuery"
    /\ Enter("tree", "tree", 0, 0)

\* Mutant: _perform_query without its process_guid guard.
MissingProcessGuid_Never == FALSE

\* "if 'process_guid' not in self._args" in _perform_query.
MissingProcessGuid == "process_guid" \notin Keys(args)

\* Mutant: the new children replace the accumulated ones.
Extend_Replace(acc, new) == new

\* results["nodes"]["children"].extend(result["nodes"]["children"]).
Extend(acc, new) == acc \o new

\* One GET of the tree document with query_parameters = self._args. The
\* backend converges: the response that makes MaxTreeFetches is complete.
TreeResponses ==
    [children : ChildLists,
     incomplete : IF Len(responses) + 1 < MaxTreeFetches THEN BOOLEAN
                                                         ELSE {FALSE},
     params : {args}]

\* _perform_query up to its loop: the guard, then the first GET.
TreeFirstFetch ==
    /\ kind = "TreeQuery" /\ pc = "tree"
    /\ IF MissingProcessGuid
       THEN /\ pc' = "idle" /\ outcome' = "MissingParameter"
            /\ UNCHANGED treeframe
       ELSE \E result \in TreeResponses :
            /\ responses' = Append(responses, result)
            /\ children' = result.children
            /\ incomplete_results' = result.incomplete
            /\ pc' = "tree_loop" /\ UNCHANGED outcome
    /\ UNCHANGED <<env, now, fields, op, start, rows, current, numrows,
                   rows_fetched, args_start, results, idx, searchers_contacted,
                   searchers_completed, yielded, ret, n_validate, n_submit,
                   n_results, n_search, n_received, total_submits,
                   always_running>>
    /\ UNCHANGED <<status_polled, wire, builder, history, workers, extra>>

\* One test of "while results['incomplete_results']": another GET merged
\* into results, or the return.
TreeLoop ==
    /\ kind = "TreeQuery" /\ pc = "tree_loop"
    /\ IF incomplete_results
       THEN \E result \in TreeResponses :
            /\ responses' = Append(responses, result)
            /\ children' = Extend(children, result.children)
            /\ incomplete_results' = result.incomplete
            /\ UNCHANGED <<pc, outcome>>
       ELSE /\ pc' = "idle" /\ outcome' = "tree"
            /\ UNCHANGED treeframe
    /\ UNCHANGED <<env, now, fields, op, start, rows, current, numrows,
                   rows_fetched, args_start, results, idx, searchers_contacted,
                   searchers_completed, yielded, ret, n_validate, n_submit,
                   n_results, n_search, n_received, total_submits,
                   always_running>>
    /\ UNCHANGED <<status_polled, wire, builder, history, workers, extra>>

\* Mutant: a cleanup handler around the yield sends one more request.
CleanupOnClose_Fetch == TRUE

\* Neither _search wraps its "yield" in try/finally or catches GeneratorExit:
\* closing the generator runs no code of the query.
CleanupOnClose == FALSE

\* The consumer stops requesting items: the generator, suspended at its
\* yield, is dropped or closed and never resumed.
Abandon ==
    /\ pc = "suspended"
    /\ pc' = "idle" /\ outcome' = "abandoned"
    /\ IF CleanupOnClose
       THEN IF kind = "Query"
            THEN n_search' = Inc(n_search) /\ UNCHANGED n_results
            ELSE n_results' = Inc(n_results) /\ UNCHANGED n_search
       ELSE UNCHANGED <<n_results, n_search>>
    /\ UNCHANGED <<env, now, fields, op, start, rows, current, numrows,
                   rows_fetched, args_start, results, idx, searchers_contacted,
                   searchers_completed, yielded, ret, n_validate, n_submit,
                   n_received, total_submits, always_running>>
    /\ UNCHANGED <<status_polled, wire, rest>>

Tick ==
    /\ query_token # None /\ pc \in {"idle", "poll", "suspended"}
    /\ now < MaxClock
    /\ now' = Min(now + PollInterval, MaxClock)
    /\ UNCHANGED <<env, fields, frame, obs>>
    /\ UNCHANGED <<status_polled, wire, rest>>

Next ==
    \/ \E msecs \in TimeoutValues : TimeoutCall(msecs)
    \/ SubmitCall
    \/ \E tok \in Tokens : SubmitBody(tok)
    \/ CountCall
    \/ CountBody
    \/ \E s \in 0..MaxStart, r \in 0..MaxRows : IterCall(s, r)
    \/ \E tok \in Tokens : AsyncSearchStart(tok)
    \/ \E c \in 0..MaxSearchers, d \in 0..MaxSearchers, tok \in Tokens :
          PollStatus(c, d, tok)
    \/ Sleep
    \/ RaiseTimeout
    \/ CountFetch
    \/ AsyncSearchBegin
    \/ AsyncFetch
    \/ AsyncResume
    \/ SyncCountCall
    \/ SyncCountBody
    \/ SyncSearchStart
    \/ SyncFetch
    \/ SyncResume
    \/ Abandon
    \/ \E kwargs \in Kwargs : TreeWhere(kwargs)
    \/ \E kwargs \in Kwargs : TreeOr(kwargs)
    \/ TreeCall
    \/ TreeFirstFetch
    \/ TreeLoop
    \/ Tick

Spec == Init /\ [][Next]_vars

\* A TreeQuery on its own.
InitTree ==
    /\ kind = "TreeQuery"
    /\ nItems = 0 /\ num_available = 0 /\ valid = TRUE /\ now = 0
    /\ Constructed

NextTree ==
    \/ \E kwargs \in Kwargs : TreeWhere(kwargs)
    \/ \E kwargs \in Kwargs : TreeOr(kwargs)
    \/ TreeCall
    \/ TreeFirstFetch
    \/ TreeLoop

SpecTree == InitTree /\ [][NextTree]_vars

\* ------------------------------------------------------------------ sort_by
SortKeys == {"device_timestamp", "process_name"}
Directions == {"ASC", "DESC"}

\* Mutant: sort_by appends an entry whether or not the key is present.
SortBy_AlwaysAppend(srt, key, direction) ==
    Append(srt, [field |-> key, order |-> direction])

\* The list self._sort after sort_by(key, direction) ran on the list srt:
\* every entry of that field gets the direction; with none, one is appended.
SortBy(srt, key, direction) ==
    LET found == \E i \in 1..Len(srt) : srt[i].field = key
        updated == [i \in 1..Len(srt) |->
                      IF srt[i].field = key
                      THEN [srt[i] EXCEPT !.order = direction]
                      ELSE srt[i]]
    IN IF found THEN updated
       ELSE Append(updated, [field |-> key, order |-> direction])

\* query.sort_by(key, direction): self._default_args['sort'] is the list.
SortByCall(key, direction) ==
    /\ kind = "AsyncProcessQuery" /\ pc = "idle"
    /\ Len(sort_calls) < MaxSortCalls
    /\ sort' = SortBy(sort, key, direction)
    /\ default_args' = <<sort'>>
    /\ sort_calls' = Append(sort_calls, <<key, direction>>)
    /\ UNCHANGED <<env, now, fields, frame, obs, status_polled, wire, args,
                   history, treeframe, workers, extra>>

\* An async process query that is given sort keys and submitted; the
\* backend's items and the clock play no part.
InitSort ==
    /\ kind = "AsyncProcessQuery"
    /\ nItems = 0 /\ num_available = 0 /\ now = 0
    /\ valid \in BOOLEAN
    /\ Constructed

NextSort ==
    \/ \E key \in SortKeys, direction \in Directions : SortByCall(key, direction)
    \/ SubmitCall
    \/ \E tok \in Tokens : SubmitBody(tok)

SpecSort == InitSort /\ [][NextSort]_vars

\* ------------------------------------------------- _get_query_parameters
\* A predicate string is a sequence of tokens: the text "process_guid:", an
\* identifier, or any other text (another clause with its connective).
Marker == "process_guid:"
Guids == {"g1", "g2"}
OtherText == " AND process_name:x"

RECURSIVE StringsUpTo(_)
\* The token strings of at most n tokens.
StringsUpTo(n) ==
    IF n = 0 THEN {<<>>}
    ELSE LET shorter == StringsUpTo(n - 1) IN
         shorter \cup {Append(q, t) : q \in shorter,
                                      t \in {Marker, OtherText} \cup Guids}

\* The predicate strings a caller writes: "process_guid:" is followed by an
\* identifier, and an identifier stands nowhere else.
Predicates ==
    {q \in StringsUpTo(MaxTokens) :
        /\ \A i \in 1..Len(q) :
              q[i] = Marker => (i < Len(q) /\ q[i + 1] \in Guids)
        /\ \A i \in 1..Len(q) :
              q[i] \in Guids => (i > 1 /\ q[i - 1] = Marker)}

\* Whether the string q contains the text "process_guid:".
HasMarker(q) == \E i \in 1..Len(q) : q[i] = Marker

\* q.split('process_guid:', 1)[1]: all of q after the first occurrence.
AfterMarker(q) ==
    LET first == CHOOSE i \in 1..Len(q) :
                    q[i] = Marker /\ \A j \in 1..(i - 1) : q[j] # Marker
    IN SubSeq(q, first + 1, Len(q))

\* The 'process_guid' entry of the payload: the builder's identifier when it
\* is not None, replaced by the text after "process_guid:" when the
\* predicate contains it.
ProcessGuidEntry(q, explicit) ==
    LET fromBuilder == IF explicit # None THEN <<(<<explicit>>)>> ELSE Absent
    IN IF HasMarker(q) THEN <<AfterMarker(q)>> ELSE fromBuilder

\* args = self._get_query_parameters(), with its entries for 'sort', 'query'
\* and 'process_guid'.
BuildParameters ==
    /\ kind \in {"Query", "AsyncProcessQuery"} /\ pc = "idle"
    /\ payload' = <<[sort |-> GetQueryParameters.sort,
                     query |-> predicate,
                     process_guid |-> ProcessGuidEntry(predicate, builder_guid)]>>
    /\ UNCHANGED <<env, now, fields, frame, obs, status_polled, wire, builder,
                   history, treeframe, workers, predicate, builder_guid,
                   instances, first_run>>

\* A query whose builder holds some predicate and, or not, an identifier.
InitParams ==
    /\ kind = "AsyncProcessQuery"
    /\ nItems = 0 /\ num_available = 0 /\ valid = TRUE /\ now = 0
    /\ query_token = None /\ timeout = 0 /\ timed_out = FALSE
    /\ submit_time = 0 /\ total_results = 0 /\ count_valid = FALSE
    /\ pc = "idle" /\ op = "none" /\ start = 0 /\ rows = 0
    /\ current = 0 /\ numrows = 0 /\ rows_fetched = 0 /\ args_start = 0
    /\ results = <<>> /\ idx = 0
    /\ searchers_contacted = 0 /\ searchers_completed = 0
    /\ yielded = <<>> /\ outcome = "none" /\ ret = 0
    /\ n_validate = 0 /\ n_submit = 0 /\ n_results = 0 /\ n_search = 0
    /\ n_received = 0 /\ total_submits = 0 /\ always_running = TRUE
    /\ status_polled = FALSE /\ total_validations = 0
    /\ validated_sort = Absent /\ posted_sort = Absent
    /\ sort = <<>> /\ default_args = Absent /\ sort_calls = <<>>
    /\ first_count = <<>>
    /\ args = {} /\ children = <<>> /\ incomplete_results = FALSE
    /\ responses = <<>>
    /\ wpc = [w \in Workers |-> "ready"] /\ wop = [w \in Workers |-> "none"]
    /\ wtok = [w \in Workers |-> None] /\ polled_by = {}
    /\ predicate \in Predicates
    /\ builder_guid \in {None} \cup Guids
    /\ payload = <<>>
    /\ queries = <<>> /\ lists = <<>> /\ first_run = <<>>

NextParams ==
    \/ \E key \in SortKeys, direction \in Directions : SortByCall(key, direction)
    \/ BuildParameters

SpecParams == InitParams /\ [][NextParams]_vars

\* ------------------------------------------------- up to the first request
\* A query of any class from its construction to the first request it sends:
\* the builder methods, the calls that start an operation, and the steps of
\* each operation up to its first exchange with the server.
InitLazy ==
    /\ kind \in {"Query", "AsyncProcessQuery", "TreeQuery"}
    /\ nItems = 0 /\ num_available = 0 /\ now = 0
    /\ valid \in (IF kind = "TreeQuery" THEN {TRUE} ELSE BOOLEAN)
    /\ Constructed

NextLazy ==
    \/ \E key \in SortKeys, direction \in Directions : SortByCall(key, direction)
    \/ \E msecs \in TimeoutValues : TimeoutCall(msecs)
    \/ \E kwargs \in Kwargs : TreeWhere(kwargs)
    \/ \E s \in 0..MaxStart, r \in 0..MaxRows : IterCall(s, r)
    \/ CountCall
    \/ SyncCountCall
    \/ TreeCall
    \/ CountBody
    \/ \E tok \in Tokens : AsyncSearchStart(tok)
    \/ \E c \in 0..MaxSearchers, d \in 0..MaxSearchers, tok \in Tokens :
          PollStatus(c, d, tok)
    \/ SyncCountBody
    \/ SyncSearchStart
    \/ TreeFirstFetch

SpecLazy == InitLazy /\ [][NextLazy]_vars

\* ------------------------------------------------- iterating twice
\* The caller keeps what a finished iteration yielded and iterates the query
\* again with the same start and rows: a new generator frame, as in IterCall.
IterAgain ==
    /\ kind \in {"Query", "AsyncProcessQuery"}
    /\ pc = "idle" /\ op = "search" /\ outcome = "done"
    /\ first_run' = IF first_run = <<>> THEN <<yielded>> ELSE first_run
    /\ pc' = "created"
    /\ current' = 0 /\ numrows' = 0 /\ rows_fetched' = 0 /\ args_start' = 0
    /\ results' = <<>> /\ idx' = 0
    /\ searchers_contacted' = 0 /\ searchers_completed' = 0
    /\ yielded' = <<>> /\ outcome' = "none" /\ ret' = 0
    /\ n_validate' = 0 /\ n_submit' = 0 /\ n_results' = 0 /\ n_search' = 0
    /\ n_received' = 0
    /\ status_polled' = FALSE
    /\ children' = <<>> /\ incomplete_results' = FALSE /\ responses' = <<>>
    /\ UNCHANGED <<env, now, fields, op, start, rows, total_submits,
                   always_running, wire, builder, history, workers, params,
                   instances>>

\* A query without timeout whose predicate the backend accepts, iterated
\* once with some start and rows, and then again.
InitTwice ==
    /\ kind \in {"Query", "AsyncProcessQuery"}
    /\ nItems \in 0..MaxItems
    /\ num_available \in Max(0, nItems - 1)..(nItems + MaxOver)
    /\ valid = TRUE
    /\ now \in ClockStarts
    /\ Constructed

NextTwice ==
    \/ /\ first_run = <<>>
       /\ \E s \in 0..MaxStart, r \in 0..MaxRows : IterCall(s, r)
    \/ IterAgain
    \/ \E tok \in Tokens : AsyncSearchStart(tok)
    \/ \E c \in 0..MaxSearchers, d \in 0..MaxSearchers, tok \in Tokens :
          PollStatus(c, d, tok)
    \/ Sleep
    \/ AsyncSearchBegin
    \/ AsyncFetch
    \/ AsyncResume
    \/ SyncSearchStart
    \/ SyncFetch
    \/ SyncResume

SpecTwice == InitTwice /\ [][NextTwice]_vars

\* ---------------------------------------------------------------- UserQuery
\* One UserQuery; nItems is the number of users the organization has, which
\* may change between two requests.  responses holds the list the latest
\* _execute returned, n_search the requests the latest step sent.
userfixed == <<kind, num_available, valid, now, query_token, timeout, timed_out,
               submit_time, start, rows, current, numrows, rows_fetched,
               args_start, searchers_contacted, searchers_completed,
               n_validate, n_submit, n_results, n_received, total_submits,
               always_running, status_polled, wire, builder, history, children,
               incomplete_results, workers, extra>>

\* _execute(): rawdata.get('users', []) of one GET of the users endpoint.
Execute == [i \in 1..nItems |-> i]

\* "self._total_results = len(return_data); self._count_valid = True".
StoreTotal(return_data) ==
    /\ total_results' = Len(return_data)
    /\ count_valid' = TRUE
    /\ responses' = <<return_data>>

\* Mutant: _count that executes the query whatever the flag says.
UserCountFetches_Always == TRUE

\* "if not self._count_valid" in UserQuery._count.
UserCountFetches == ~count_valid

\* UserQuery._count().
UserCount ==
    /\ kind = "UserQuery"
    /\ IF UserCountFetches
       THEN StoreTotal(Execute) /\ n_search' = 1
       ELSE UNCHANGED <<total_results, count_valid, responses>> /\ n_search' = 0
    /\ ret' = total_results'
    /\ op' = "count" /\ outcome' = "count"
    /\ UNCHANGED <<nItems, pc, results, idx, yielded, userfixed>>

\* _perform_query() is a generator: calling it runs nothing.  A generator
\* that was suspended is dropped.
UserIterCall ==
    /\ kind = "UserQuery" /\ pc \in {"idle", "suspended"}
    /\ pc' = "created" /\ op' = "search" /\ outcome' = "none"
    /\ results' = <<>> /\ idx' = 0 /\ yielded' = <<>>
    /\ n_search' = 0
    /\ UNCHANGED <<nItems, total_results, count_valid, responses, ret, userfixed>>

\* First next() on _perform_query: _execute, the total, the first user.
UserIterStart ==
    /\ kind = "UserQuery" /\ pc = "created"
    /\ StoreTotal(Execute) /\ n_search' = 1
    /\ results' = Execute
    /\ op' = "search"
    /\ IF Execute = <<>>
       THEN pc' = "idle" /\ outcome' = "done" /\ UNCHANGED <<yielded, idx>>
       ELSE /\ yielded' = <<Execute[1]>> /\ idx' = 1
            /\ pc' = "suspended" /\ UNCHANGED outcome
    /\ UNCHANGED <<nItems, ret, userfixed>>

\* next() on the suspended generator of _perform_query.
UserIterNext ==
    /\ kind = "UserQuery" /\ pc = "suspended"
    /\ op' = "search" /\ n_search' = 0
    /\ IF idx < Len(results)
       THEN /\ yielded' = Append(yielded, results[idx + 1])
            /\ idx' = idx + 1
            /\ UNCHANGED <<pc, outcome>>
       ELSE pc' = "idle" /\ outcome' = "done" /\ UNCHANGED <<yielded, idx>>
    /\ UNCHANGED <<nItems, total_results, count_valid, responses, results, ret,
                   userfixed>>

\* _run_async_query(None), run to its end; ret is the length of its list.
UserRunAsync ==
    /\ kind = "UserQuery"
    /\ StoreTotal(Execute) /\ n_search' = 1
    /\ ret' = Len(Execute)
    /\ op' = "run_async" /\ outcome' = "done"
    /\ UNCHANGED <<nItems, pc, results, idx, yielded, userfixed>>

\* Users are added to or removed from the organization.
UsersChange(n) ==
    /\ kind = "UserQuery" /\ n # nItems
    /\ nItems' = n
    /\ UNCHANGED <<total_results, count_valid, responses, pc, op, outcome,
                   results, idx, yielded, ret, n_search, userfixed>>

\* UserQuery.__init__: the count is not valid, the total is 0.
InitUsers ==
    /\ kind = "UserQuery"
    /\ nItems \in 0..MaxItems
    /\ num_available = 0 /\ valid = TRUE /\ now = 0
    /\ Constructed

NextUsers ==
    \/ UserCount
    \/ UserIterCall
    \/ UserIterStart
    \/ UserIterNext
    \/ UserRunAsync
    \/ \E n \in 0..MaxItems : UsersChange(n)

SpecUsers == InitUsers /\ [][NextUsers]_vars

\* ------------------------------------------------- two query objects
\* Two AsyncProcessQuery objects of one program.  lists is the heap of list
\* objects, addressed by position; queries maps an object to its attributes,
\* _sort being the address of its list.
QIds == {"qa", "qb"}
TwoTimeouts == {0, 400}

\* Mutant: one list object for every instance, as a class attribute would be.
NewList_Shared(heap) == 1

\* "self._sort = []": the address of a list object that did not exist before.
NewList(heap) == Len(heap) + 1

\* AsyncProcessQuery.__init__ of the object q.
TwoConstruct(q) ==
    /\ q \notin DOMAIN queries
    /\ LET addr == NewList(lists) IN
        /\ lists' = IF addr > Len(lists) THEN Append(lists, <<>>)
                                         ELSE [lists EXCEPT ![addr] = <<>>]
        /\ queries' = [x \in DOMAIN queries \cup {q} |->
                         IF x = q
                         THEN [_query_token |-> None, _timeout |-> 0,
                               _timed_out |-> FALSE, _sort |-> addr,
                               default_sort |-> Absent,
                               current |-> 0, yielded |-> <<>>]
                         ELSE queries[x]]
    /\ UNCHANGED <<env, now, fields, frame, obs, status_polled, wire, builder,
                   history, treeframe, workers, params, first_run>>

\* q.sort_by(key, direction): the list object is changed in place and made
\* the 'sort' entry of q's default arguments.
TwoSortBy(q, key, direction) ==
    /\ q \in DOMAIN queries
    /\ lists' = [lists EXCEPT ![queries[q]._sort] = SortBy(@, key, direction)]
    /\ queries' = [queries EXCEPT ![q].default_sort = <<queries[q]._sort>>]
    /\ UNCHANGED <<env, now, fields, frame, obs, status_polled, wire, builder,
                   history, treeframe, workers, params, first_run>>

\* q.timeout(msecs).
TwoTimeout(q, msecs) ==
    /\ q \in DOMAIN queries
    /\ queries' = [queries EXCEPT ![q]._timeout = msecs]
    /\ UNCHANGED <<env, now, fields, frame, obs, status_polled, wire, builder,
                   history, treeframe, workers, params, lists, first_run>>

\* q._submit() when q has no token: the token of the job and _timed_out.
\* The server names every job differently.
TwoSubmit(q, tok) ==
    /\ q \in DOMAIN queries
    /\ queries[q]._query_token = None
    /\ \A x \in DOMAIN queries : queries[x]._query_token # tok
    /\ queries' = [queries EXCEPT ![q]._query_token = tok,
                                  ![q]._timed_out = FALSE]
    /\ UNCHANGED <<env, now, fields, frame, obs, status_polled, wire, builder,
                   history, treeframe, workers, params, lists, first_run>>

\* iter(q) followed by the first next(): a new generator frame.
TwoIter(q) ==
    /\ q \in DOMAIN queries
    /\ queries[q]._query_token # None
    /\ queries' = [queries EXCEPT ![q].current = 0, ![q].yielded = <<>>]
    /\ UNCHANGED <<env, now, fields, frame, obs, status_polled, wire, builder,
                   history, treeframe, workers, params, lists, first_run>>

\* One q._still_querying() on a job that is still running, elapsed ms after
\* its submission.
TwoPoll(q, elapsed) ==
    /\ q \in DOMAIN queries
    /\ queries[q]._query_token # None
    /\ queries' = [queries EXCEPT ![q]._timed_out =
                        StillQuerying(1, 0, queries[q]._timeout, elapsed, @).timed_out]
    /\ UNCHANGED <<env, now, fields, frame, obs, status_polled, wire, builder,
                   history, treeframe, workers, params, lists, first_run>>

\* One item yielded by q's _search generator.
TwoYield(q) ==
    /\ q \in DOMAIN queries
    /\ queries[q]._query_token # None /\ ~queries[q]._timed_out
    /\ queries[q].current < MaxYield
    /\ queries' = [queries EXCEPT ![q].current = @ + 1,
                                  ![q].yielded = Append(@, queries[q].current + 1)]
    /\ UNCHANGED <<env, now, fields, frame, obs, status_polled, wire, builder,
                   history, treeframe, workers, params, lists, first_run>>

\* No query object exists yet.
InitTwo ==
    /\ kind = "AsyncProcessQuery"
    /\ nItems = 0 /\ num_available = 0 /\ valid = TRUE /\ now = 0
    /\ query_token = None /\ timeout = 0 /\ timed_out = FALSE
    /\ submit_time = 0 /\ total_results = 0 /\ count_valid = FALSE
    /\ pc = "idle" /\ op = "none" /\ start = 0 /\ rows = 0
    /\ current = 0 /\ numrows = 0 /\ rows_fetched = 0 /\ args_start = 0
    /\ results = <<>> /\ idx = 0
    /\ searchers_contacted = 0 /\ searchers_completed = 0
    /\ yielded = <<>> /\ outcome = "none" /\ ret = 0
    /\ n_validate = 0 /\ n_submit = 0 /\ n_results = 0 /\ n_search = 0
    /\ n_received = 0 /\ total_submits = 0 /\ always_running = TRUE
    /\ status_polled = FALSE /\ total_validations = 0
    /\ validated_sort = Absent /\ posted_sort = Absent
    /\ sort = <<>> /\ default_args = Absent /\ sort_calls = <<>>
    /\ first_count = <<>>
    /\ args = {} /\ children = <<>> /\ incomplete_results = FALSE
    /\ responses = <<>>
    /\ wpc = [w \in Workers |-> "ready"] /\ wop = [w \in Workers |-> "none"]
    /\ wtok = [w \in Workers |-> None] /\ polled_by = {}
    /\ predicate = <<>> /\ builder_guid = None /\ payload = <<>>
    /\ first_run = <<>>
    /\ queries = [x \in {} |-> 0] /\ lists = <<>>

NextTwo ==
    \E q \in QIds :
        \/ TwoConstruct(q)
        \/ \E key \in SortKeys, direction \in Directions : TwoSortBy(q, key, direction)
        \/ \E msecs \in TwoTimeouts : TwoTimeout(q, msecs)
        \/ \E tok \in Tokens : TwoSubmit(q, tok)
        \/ TwoIter(q)
        \/ \E elapsed \in {0, MaxClock} : TwoPoll(q, elapsed)
        \/ TwoYield(q)

SpecTwo == InitTwo /\ [][NextTwo]_vars

\* What the caller of q can observe of q.
View(q) ==
    [token |-> queries[q]._query_token,
     sort |-> lists[queries[q]._sort],
     default_sort |-> IF queries[q].default_sort = Absent THEN Absent
                      ELSE <<lists[queries[q].default_sort[1]]>>,
     timeout |-> queries[q]._timeout,
     timed_out |-> queries[q]._timed_out,
     current |-> queries[q].current,
     yielded |-> queries[q].yielded]

\* ------------------------------------------- two workers, one query object
\* The class holds no lock: the statements of two callers interleave at every
\* attribute read, attribute write and request.
others == <<env, now, total_results, count_valid, frame, yielded, outcome,
            ret, n_validate, n_submit, n_results, n_search, n_received,
            always_running, status_polled, validated_sort, posted_sort,
            builder, history, treeframe, extra>>

\* A worker calls _submit, count() or starts an iteration.
WorkerCall(w, o) ==
    /\ wpc[w] = "ready"
    /\ wop' = [wop EXCEPT ![w] = o]
    /\ wpc' = [wpc EXCEPT ![w] = IF o = "submit" THEN "guard" ELSE "need"]
    /\ UNCHANGED <<others, query_token, timeout, timed_out, submit_time,
                   total_submits, total_validations, wtok, polled_by>>

\* "if not self._query_token: self._submit()" in _still_querying / _search.
WorkerNeedsSubmit(w) ==
    /\ wpc[w] = "need"
    /\ wpc' = [wpc EXCEPT ![w] = IF NeedsSubmit THEN "guard" ELSE "poll"]
    /\ UNCHANGED <<others, query_token, timeout, timed_out, submit_time,
                   total_submits, total_validations, wop, wtok, polled_by>>

\* "if self._query_token: raise ApiError(...)" in _submit.
WorkerGuard(w) ==
    /\ wpc[w] = "guard"
    /\ wpc' = [wpc EXCEPT ![w] = IF AlreadySubmitted THEN "AlreadySubmitted"
                                                     ELSE "validate"]
    /\ UNCHANGED <<others, query_token, timeout, timed_out, submit_time,
                   total_submits, total_validations, wop, wtok, polled_by>>

\* self._validate(args) in _submit: one GET.
WorkerValidate(w) ==
    /\ wpc[w] = "validate"
    /\ total_validations' = Inc(total_validations)
    /\ wpc' = [wpc EXCEPT ![w] = IF valid THEN "post" ELSE "InvalidQuery"]
    /\ UNCHANGED <<others, query_token, timeout, timed_out, submit_time,
                   total_submits, wop, wtok, polled_by>>

\* The POST of the job in _submit; the backend issues a new job id for it.
WorkerPost(w) ==
    /\ wpc[w] = "post"
    /\ total_submits' = Inc(total_submits)
    /\ wtok' = [wtok EXCEPT ![w] = IF total_submits = 0 THEN "job1" ELSE "job2"]
    /\ wpc' = [wpc EXCEPT ![w] = "assign"]
    /\ UNCHANGED <<others, query_token, timeout, timed_out, submit_time,
                   total_validations, wop, polled_by>>

\* The end of _submit: the token, timed_out and the submission time.
WorkerAssign(w) ==
    /\ wpc[w] = "assign"
    /\ query_token' = wtok[w]
    /\ timed_out' = FALSE
    /\ submit_time' = now
    /\ wpc' = [wpc EXCEPT ![w] = IF wop[w] = "submit" THEN "submitted"
                                                      ELSE "poll"]
    /\ UNCHANGED <<others, timeout, total_submits, total_validations, wop,
                   wtok, polled_by>>

\* One status GET of _still_querying for the token the query holds now; the
\* worker polls again or goes on to the results.
WorkerPoll(w) ==
    /\ wpc[w] = "poll"
    /\ polled_by' = polled_by \cup {<<w, query_token>>}
    /\ \E running \in BOOLEAN :
          wpc' = [wpc EXCEPT ![w] = IF running THEN "poll" ELSE "polled"]
    /\ UNCHANGED <<others, query_token, timeout, timed_out, submit_time,
                   total_submits, total_validations, wop, wtok>>

\* Two workers start terminal operations on one unsubmitted query.
InitWorkers ==
    /\ kind = "AsyncProcessQuery"
    /\ nItems = 0 /\ num_available = 0 /\ now = 0
    /\ valid \in BOOLEAN
    /\ Constructed

NextWorkers ==
    \E w \in Workers :
        \/ \E o \in {"submit", "count", "search"} : WorkerCall(w, o)
        \/ WorkerNeedsSubmit(w)
        \/ WorkerGuard(w)
        \/ WorkerValidate(w)
        \/ WorkerPost(w)
        \/ WorkerAssign(w)
        \/ WorkerPoll(w)

SpecWorkers == InitWorkers /\ [][NextWorkers]_vars

\* ------------------------------------------------------------------ claims
Async == kind = "AsyncProcessQuery"
Sync == kind = "Query"

\* The configured timeout has elapsed since submission.
TimeoutFired == timeout # 0 /\ now - submit_time > timeout

\* The state right after one status poll; searchers_contacted and
\* searchers_completed hold the response, pc the decision.
Polled == Async /\ pc \in {"sleep", "check"}

\* C1 (as stated): a poll reports done when contacted = 0 or completed >=
\* contacted, and still running only when contacted > 0, completed < contacted
\* and the timeout has not fired.
C1_Original ==
    Polled =>
        /\ (searchers_contacted = 0 \/ searchers_completed >= searchers_contacted)
              => pc = "check"
        /\ pc = "sleep" =>
              /\ searchers_contacted > 0
              /\ searchers_completed < searchers_contacted
              /\ ~TimeoutFired

\* C1 (amended): a poll reports still running exactly when contacted = 0
\* (whatever the timeout), or contacted > 0, completed < contacted and the
\* timeout has not fired; otherwise it reports done.
C1_StatusPoll ==
    Polled =>
        (pc = "sleep" <=>
            \/ searchers_contacted = 0
            \/ /\ searchers_completed < searchers_contacted
               /\ ~TimeoutFired)

\* A poll answered contacted = 0 after the timeout has elapsed goes on polling.
C1_Witness ==
    Polled /\ pc = "sleep" /\ searchers_contacted = 0 /\ TimeoutFired

\* C2: with a nonzero timeout, once the time since submission exceeds it the
\* next poll of a job that has not completed stops the polling loop (the loop
\* never goes back to sleep with the timeout elapsed).
C2_TimeoutStopsPolling ==
    (Async /\ pc = "sleep") => ~TimeoutFired

\* C3: with a submitted job whose every status response has completed <
\* contacted and a timeout T > 0, count() and iteration issue no results
\* request, yield no item, never sleep for another poll once T has elapsed,
\* and when they end they end with TimeoutError.
C3_TimeoutNoPartial ==
    (/\ Async /\ op \in {"count", "search"}
     /\ query_token # None /\ always_running /\ timeout > 0)
    => /\ n_results = 0
       /\ yielded = <<>>
       /\ pc = "sleep" => ~TimeoutFired
       /\ pc = "idle" => outcome = "TimeoutError"

\* An iteration that polled a never-completing job and ended in TimeoutError.
C3_Witness ==
    /\ Async /\ op = "search" /\ pc = "idle" /\ outcome = "TimeoutError"
    /\ always_running /\ timeout > 0 /\ total_submits = 1

\* C4: once timed_out is true, every terminal operation that has ended on the
\* query ended with TimeoutError, with no count returned and no item yielded.
C4_TimedOutSticky ==
    (Async /\ timed_out /\ pc = "idle" /\ op \in {"count", "search"})
    => (outcome = "TimeoutError" /\ yielded = <<>>)

\* C5: _submit on a query that holds a token raises the already-submitted
\* error, sends no validation and no submission request, and leaves the
\* token, the submission time and timed_out as they were.
C5_ResubmitRejected ==
    [][(pc = "submit" /\ query_token # None) =>
          /\ pc' = "idle" /\ outcome' = "AlreadySubmitted"
          /\ query_token' = query_token
          /\ submit_time' = submit_time
          /\ timed_out' = timed_out
          /\ n_validate' = 0 /\ n_submit' = 0
          /\ total_submits' = total_submits]_vars

\* A rejected resubmission on a query whose earlier wait had timed out.
C5_Witness ==
    /\ op = "submit" /\ pc = "idle" /\ outcome = "AlreadySubmitted"
    /\ query_token # None /\ timed_out

\* C6: at most one job-submission POST is ever sent for the query, and the
\* token never changes once it is set.
C6_TokenOnce ==
    /\ [](total_submits <= 1)
    /\ [][query_token # None => query_token' = query_token]_vars

\* A count() that ended on a query submitted by an earlier operation.
C6_Witness ==
    /\ Async /\ op = "count" /\ pc = "idle" /\ outcome = "count"
    /\ n_submit = 0 /\ total_submits = 1 /\ query_token # None

\* A finished synchronous iteration from the beginning, without a row limit,
\* against a backend that advertises exactly the items it holds.
FullSyncRun ==
    /\ Sync /\ op = "search" /\ pc = "idle" /\ outcome = "done"
    /\ start = 0 /\ rows = 0 /\ num_available = nItems

\* C7 (as stated): a full synchronous iteration yields N items and performs
\* ceil(N/B) page fetches plus one terminating fetch.
C7_Original ==
    FullSyncRun =>
        /\ Len(yielded) = nItems
        /\ n_search = CeilDiv(nItems, SyncBatch) + 1

\* C7 (amended): a full synchronous iteration yields the N items in order
\* and performs ceil(N/B) page fetches when N > 0, with no further
\* terminating fetch, and exactly one fetch when N = 0.
C7_Pagination ==
    FullSyncRun =>
        /\ yielded = [i \in 1..nItems |-> i]
        /\ n_search = Max(1, CeilDiv(nItems, SyncBatch))

\* A full iteration over more than one page whose last page is partial.
C7_Witness ==
    FullSyncRun /\ nItems > SyncBatch /\ nItems % SyncBatch # 0

\* A synchronous iteration that ended right after an empty page while the
\* advertised total was above the cursor.
EndedOnEmptyPage ==
    /\ Sync /\ op = "search" /\ pc = "idle"
    /\ n_search > 0 /\ results = <<>> /\ num_available > current

\* C8: when the backend over-reports num_available and then returns an empty
\* page, the synchronous iteration ends without error, has yielded exactly
\* the items returned, and the running total is the cursor reached.
C8_OverReport ==
    EndedOnEmptyPage =>
        /\ outcome = "done"
        /\ Len(yielded) = n_received
        /\ start = 0 => yielded = [i \in 1..nItems |-> i]
        /\ total_results = current

\* Items were yielded, then an empty page ended an over-reported iteration.
C8_Witness ==
    EndedOnEmptyPage /\ yielded # <<>> /\ num_available > nItems /\ start = 0

\* C9: pagination of the job results stops after a page with zero items (the
\* loop does not go on to another request after an empty page).
C9_EmptyPageStops ==
    ~(Async /\ pc = "fetch" /\ n_results > 0 /\ results = <<>>)

\* An iteration with a row limit K below the number of items available from
\* its start, against a backend that advertises at least the items it holds.
RowLimited ==
    /\ op = "search" /\ rows > 0 /\ num_available >= nItems
    /\ rows < nItems - start

Fetches == IF Sync THEN n_search ELSE n_results
Batch == IF Sync THEN SyncBatch ELSE AsyncBatch

\* C10: with a row limit K < N the iteration yields exactly K items, issues
\* no page request once the K-th item has been yielded, and performs
\* ceil(K / batch size) page fetches.
C10_RowLimit ==
    RowLimited =>
        /\ Len(yielded) <= rows
        /\ Fetches <= CeilDiv(rows, Batch)
        /\ Len(yielded) = rows => pc \in {"suspended", "idle"}
        /\ (pc = "idle" /\ outcome = "done") =>
              /\ Len(yielded) = rows
              /\ Fetches = CeilDiv(rows, Batch)

\* A row-limited iteration of job results that needed more than one page.
C10_Witness ==
    /\ RowLimited /\ Async /\ pc = "idle" /\ outcome = "done"
    /\ Len(yielded) = rows /\ Fetches >= 2

\* C11: on an async process query only the first count() sends a results
\* request, and it sends one (none when an iteration already cached the
\* total): every count() called after a count() has returned ends at once
\* with the value the first one returned, having sent no validation, no job
\* submission, no status poll and no results request.
C11_CountOnce ==
    /\ [](Async => ((op = "count" /\ outcome = "count")
                      => (first_count # <<>> /\ first_count[1] = ret
                          /\ n_results <= first_count[2])))
    /\ [][(Async /\ op = "count" /\ n_results' > n_results)
            => (/\ first_count = <<>> /\ n_results = 0 /\ ~count_valid
                /\ first_count' = <<ret', 1>>)]_vars
    /\ [][(Async /\ pc = "count" /\ first_count # <<>>)
            => (/\ pc' = "idle" /\ outcome' = "count" /\ ret' = first_count[1]
                /\ n_results' = 0 /\ n_submit' = 0 /\ n_validate' = 0
                /\ ~status_polled'
                /\ UNCHANGED <<wire, fields, first_count>>)]_vars

\* A second count() has returned from the cache after the first one fetched.
C11_SecondCount ==
    /\ Async /\ op = "count" /\ outcome = "count"
    /\ first_count = <<ret, 1>> /\ ret > 0
    /\ n_results = 0 /\ n_submit = 0 /\ ~status_polled

\* C12: while the validation endpoint answers valid: false, no search request
\* and no job submission is sent, the async token stays unset, and every
\* terminal operation that has run (count(), iteration, _submit) ended in the
\* validation error.
C12_InvalidFailsFirst ==
    ~valid =>
        /\ n_search = 0 /\ total_submits = 0 /\ query_token = None
        /\ (pc = "idle" /\ op # "none") => outcome = "InvalidQuery"

\* C13 as stated: a started synchronous iteration has sent validation exactly
\* once, and none of its search requests went out before it; an async query
\* sends validation at most once in its lifetime.
C13_Original ==
    /\ (Sync /\ op = "search" /\ pc # "created") => n_validate = 1
    /\ (Sync /\ op = "search" /\ n_validate = 0) => n_search = 0
    /\ Async => total_validations <= 1

\* C13, amended: a started synchronous iteration has sent validation exactly
\* once, and none of its search requests went out before it, however many
\* pages it fetched. An async query submits at most one job; the job was
\* preceded by exactly one validation and no validation follows it; no
\* operation validates twice; while the predicate is rejected nothing is
\* submitted, and each terminal operation sends validation again.
C13_ValidateOnce ==
    /\ (Sync /\ op = "search" /\ pc # "created") => n_validate = 1
    /\ (Sync /\ op = "search" /\ n_validate = 0) => n_search = 0
    /\ Async =>
          /\ total_submits <= 1 /\ n_validate <= 1
          /\ valid => total_validations = total_submits
          /\ ~valid => total_submits = 0
          /\ (~valid /\ pc = "idle" /\ op # "none") => n_validate = 1

\* An async query ran a second terminal operation to its end after its one
\* validation and its one submission.
C13_Witness ==
    /\ Async /\ total_submits = 1 /\ total_validations = 1
    /\ n_submit = 0 /\ n_validate = 0 /\ outcome \in {"count", "done"}

\* The timeout is 0 at construction, and a step that changes it is a call of
\* timeout(msecs) that changes nothing else.
TimeoutSetterOnly ==
    /\ timeout = 0
    /\ [][timeout' # timeout
            => (/\ timeout' \in TimeoutValues
                /\ UNCHANGED <<env, now, query_token, timed_out, submit_time,
                               total_results, count_valid, frame, obs,
                               status_polled, wire, rest>>)]_vars

\* timed_out becomes true only in a status poll whose response has
\* completed < contacted, with a nonzero timeout and more than timeout
\* milliseconds on the clock since the submission.
TimedOutOnlyAtPoll ==
    [][(~timed_out /\ timed_out')
        => (/\ pc = "poll" /\ pc' = "check" /\ query_token # None
            /\ searchers_completed' < searchers_contacted'
            /\ timeout # 0 /\ now - submit_time > timeout
            /\ UNCHANGED <<now, submit_time, timeout>>)]_vars

\* An operation raises TimeoutError only with timed_out set.
TimeoutErrorNeedsFlag ==
    [][(outcome # "TimeoutError" /\ outcome' = "TimeoutError") => timed_out]_vars

\* C17 as stated: the timeout is 0 until timeout(msecs) sets it and changes
\* nothing else; timed_out rises only at a poll that finds the job running
\* with a nonzero timeout exceeded; and no operation raises TimeoutError
\* while the timeout is 0.
C17_Original ==
    /\ TimeoutSetterOnly
    /\ TimedOutOnlyAtPoll
    /\ [][(outcome # "TimeoutError" /\ outcome' = "TimeoutError")
            => timeout # 0]_vars

\* C17, amended: the timeout is 0 until timeout(msecs) sets it and changes
\* nothing else; timed_out rises only at a poll that finds the job running
\* with a nonzero timeout exceeded; TimeoutError is raised only with
\* timed_out set, and timed_out, once set, survives timeout(0). So no
\* operation raises TimeoutError on a query whose timeout has been 0 all
\* along: while the timeout is 0 and timed_out is unset, it stays unset.
C17_TimeoutZeroUnbounded ==
    /\ TimeoutSetterOnly
    /\ TimedOutOnlyAtPoll
    /\ TimeoutErrorNeedsFlag
    /\ [][(timeout = 0 /\ ~timed_out) => ~timed_out']_vars

\* With the timeout left at 0, a poll has found the job still running a full
\* second after the submission and the loop goes on.
C17_Witness ==
    /\ Async /\ timeout = 0 /\ ~timed_out /\ pc = "sleep"
    /\ searchers_completed < searchers_contacted
    /\ now - submit_time >= 2 * PollInterval

\* What the query has sent: per operation and over its lifetime.
requests == <<n_validate, n_submit, n_results, n_search, status_polled,
              total_submits, wire>>

\* C19: the step in which the consumer abandons an iteration sends nothing
\* (no poll, no page request, no cancel request) and leaves the query's
\* fields alone; the abandoned iteration runs no further step, and nothing is
\* sent until the caller starts another operation.
C19_AbandonSilent ==
    /\ [][(outcome # "abandoned" /\ outcome' = "abandoned")
            => (/\ op = "search" /\ pc = "suspended"
                /\ pc' = "idle"
                /\ UNCHANGED <<requests, fields, yielded>>)]_vars
    /\ [](outcome = "abandoned" => pc = "idle")
    /\ [][(outcome = "abandoned" /\ outcome' = "abandoned")
            => UNCHANGED <<requests, yielded>>]_vars

\* An async iteration abandoned after its first item, with items left to
\* fetch, and time passing afterwards.
C19_Witness ==
    /\ Async /\ outcome = "abandoned" /\ op = "search" /\ rows = 0
    /\ Len(yielded) = 1 /\ nItems - start >= 2 /\ n_results = 1
    /\ now - submit_time >= PollInterval

Tree == kind = "TreeQuery"

RECURSIVE AllChildren(_)
\* The children lists of the responses rs, concatenated in order.
AllChildren(rs) ==
    IF rs = <<>> THEN <<>>
    ELSE AllChildren(SubSeq(rs, 1, Len(rs) - 1)) \o rs[Len(rs)].children

\* C15: during and after a tree fetch the accumulated children are the
\* concatenation, in fetch order, of the children of every response received;
\* every request carried the same parameters; every response but the latest
\* flagged incomplete_results; the fetch goes on while the latest one flags
\* it and returns at the first that does not, so that the number of fetches
\* is one plus the number of incomplete responses.
C15_TreeAccumulates ==
    (Tree /\ op = "tree" /\ responses # <<>>) =>
        LET n == Len(responses) IN
        /\ children = AllChildren(responses)
        /\ incomplete_results = responses[n].incomplete
        /\ \A i \in 1..n : responses[i].params = responses[1].params
        /\ \A i \in 1..(n - 1) : responses[i].incomplete
        /\ n = 1 + Cardinality({i \in 1..n : responses[i].incomplete})
                 - (IF responses[n].incomplete THEN 1 ELSE 0)
        /\ (pc = "idle") <=> (outcome = "tree")
        /\ outcome = "tree" => ~responses[n].incomplete

\* Three fetches, incomplete twice, with children [a], [b], [c].
C15_Witness ==
    /\ Tree /\ outcome = "tree" /\ Len(responses) = 3
    /\ children = <<"a", "b", "c">>
    /\ responses[1].incomplete /\ responses[2].incomplete

\* C16: a tree fetch on a query whose arguments hold no process_guid ends
\* at once with the missing-parameter error and has sent no request; every
\* request a tree fetch sends carries process_guid.
C16_MissingGuid ==
    /\ [](Tree => /\ \A i \in 1..Len(responses) :
                        "process_guid" \in Keys(responses[i].params)
                  /\ outcome = "MissingParameter" => responses = <<>>)
    /\ [][(Tree /\ pc = "tree" /\ "process_guid" \notin Keys(args))
            => (/\ pc' = "idle" /\ outcome' = "MissingParameter"
                /\ responses' = <<>>)]_vars

\* A tree fetch failed for want of process_guid although other arguments
\* were given.
C16_Witness ==
    /\ Tree /\ op = "tree" /\ outcome = "MissingParameter"
    /\ Keys(args) = {"node_limit"} /\ responses = <<>>

\* C14: the job submission that follows sort_by posts a body whose sort entry
\* is the accumulated sort list, while the validation request of that
\* submission carries no sort entry.
C14_SubmissionKeepsSort ==
    [][(total_submits' > total_submits /\ sort # <<>>)
        => (posted_sort' = <<sort>> /\ validated_sort' = Absent)]_vars

RECURSIVE FirstCallOrder(_)
\* The distinct keys of the calls cs, in the order of their first call.
FirstCallOrder(cs) ==
    IF cs = <<>> THEN <<>>
    ELSE LET before == FirstCallOrder(SubSeq(cs, 1, Len(cs) - 1))
             key == cs[Len(cs)][1]
         IN IF \E i \in 1..Len(before) : before[i] = key
            THEN before ELSE Append(before, key)

\* The direction of the most recent call of cs for key.
LastDirection(cs, key) ==
    LET last == CHOOSE i \in 1..Len(cs) :
                    /\ cs[i][1] = key
                    /\ \A j \in (i + 1)..Len(cs) : cs[j][1] # key
    IN cs[last][2]

\* C20: after the sort_by calls made so far the sort list has one entry per
\* distinct key, in the order of the keys' first calls, each with the
\* direction of the latest call for its key, and the request arguments' sort
\* entry is that list.
C20_SortList ==
    sort_calls # <<>> =>
        LET keys == FirstCallOrder(sort_calls) IN
        /\ sort = [i \in 1..Len(keys) |->
                     [field |-> keys[i],
                      order |-> LastDirection(sort_calls, keys[i])]]
        /\ \A i, j \in 1..Len(sort) : sort[i].field = sort[j].field => i = j
        /\ default_args = <<sort>>
        /\ GetQueryParameters.sort = <<sort>>

\* Two keys, the first one given a second direction later.
C20_Witness ==
    /\ sort_calls = <<(<<"process_name", "ASC">>),
                      (<<"device_timestamp", "ASC">>),
                      (<<"process_name", "DESC">>)>>
    /\ sort = <<[field |-> "process_name", order |-> "DESC"],
                [field |-> "device_timestamp", order |-> "ASC"]>>

\* C18: with two workers running terminal operations on one unsubmitted
\* async query, at most one job is submitted and no token is polled by more
\* than one worker.
C18_OneSubmitterOnePoller ==
    /\ total_submits <= 1
    /\ \A tok \in Tokens :
          Cardinality({w \in Workers : <<w, tok>> \in polled_by}) <= 1

\* C21: no where() or and_() call on a TreeQuery removes a key/value pair an
\* earlier call has put into the arguments.
C21_FiltersKept ==
    [][Tree => args \subseteq args']_vars

\* C22: or_ on a TreeQuery ends at once with the unsupported-operation error,
\* sends no request and leaves the arguments and everything a fetch reads as
\* they were.
C22_OrRejected ==
    /\ [](op = "or_" => (Tree /\ pc = "idle"
                          /\ outcome = "UnsupportedOperation"))
    /\ [][(op # "or_" /\ op' = "or_")
            => UNCHANGED <<args, treeframe, env, fields, wire, n_validate,
                           n_submit, n_results, n_search, status_polled>>]_vars

\* or_ was rejected on a query that holds a process_guid, after a fetch.
C22_Witness ==
    /\ Tree /\ op = "or_" /\ outcome = "UnsupportedOperation"
    /\ "process_guid" \in Keys(args) /\ Len(responses) = 2

\* C23: every payload _get_query_parameters builds has no process_guid when
\* the builder holds no identifier and the predicate no "process_guid:"
\* clause, the builder's identifier when only that exists, and the identifier
\* of the predicate's first "process_guid:" clause whenever there is one;
\* and building it leaves the stored default arguments as they were.
C23_ProcessGuid ==
    [][payload' # payload =>
        LET a == payload'[1]
            clause == CHOOSE i \in 1..Len(predicate) :
                         predicate[i] = Marker
                         /\ \A j \in 1..(i - 1) : predicate[j] # Marker
        IN /\ (~HasMarker(predicate) /\ builder_guid = None)
                => a.process_guid = Absent
           /\ (~HasMarker(predicate) /\ builder_guid # None)
                => a.process_guid = <<(<<builder_guid>>)>>
           /\ HasMarker(predicate)
                => a.process_guid = <<(<<predicate[clause + 1]>>)>>
           /\ UNCHANGED <<default_args, sort>>]_vars

\* C24: a step of one async process query (its construction included) leaves
\* the token, sort list, default arguments, timeout, timed_out flag, cursor
\* and yielded items of every other query object as they were, so each
\* object goes through the states it goes through alone.
C24_NoSharedState ==
    [][\A q \in DOMAIN queries : \A other \in QIds \ {q} :
          IF other \in DOMAIN queries
          THEN View(other)' # View(other) => View(q)' = View(q)
          ELSE other \in DOMAIN queries' => View(q)' = View(q)]_vars

\* Both objects have been sorted, submitted and iterated, differently.
C24_Witness ==
    /\ DOMAIN queries = QIds
    /\ Len(View("qa").sort) = 2 /\ Len(View("qb").sort) = 1
    /\ View("qa").token = "job1" /\ View("qb").token = "job2"
    /\ View("qa").timeout = 400 /\ View("qb").timeout = 0
    /\ View("qa").timed_out /\ ~View("qb").timed_out
    /\ View("qa").yielded = <<>> /\ View("qb").current = MaxYield

\* The step sends a request: a validation, a submission, a search POST, a
\* results GET, a status poll or a tree GET.
SendsRequest ==
    \/ n_validate' > n_validate \/ n_submit' > n_submit
    \/ n_search' > n_search \/ n_results' > n_results
    \/ total_validations' > total_validations \/ total_submits' > total_submits
    \/ (status_polled' /\ ~status_polled)
    \/ Len(responses') > Len(responses)

\* C25: nothing has been sent while no operation was started; no step taken
\* between operations (sort_by, timeout, where/and_, the creation of an
\* iterator, the call of count() or of the tree fetch) sends a request; a
\* request goes out only inside a count, a tree fetch, or an iteration whose
\* first item has been asked for.
C25_Lazy ==
    /\ [](op = "none" => /\ total_validations = 0 /\ total_submits = 0
                         /\ n_search = 0 /\ n_results = 0 /\ ~status_polled
                         /\ responses = <<>>)
    /\ [][pc = "idle" => ~SendsRequest]_vars
    /\ [][SendsRequest => (/\ op \in {"search", "count", "tree"}
                           /\ pc \in {"created", "count", "poll", "tree"}
                           /\ pc' # "created")]_vars

\* An async query that was sorted twice, given a timeout and turned into an
\* iterator, with nothing sent so far.
C25_Witness ==
    /\ Async /\ pc = "created" /\ Len(sort) = 2 /\ timeout = 400
    /\ total_validations = 0 /\ total_submits = 0 /\ ~status_polled

\* C26: on an async process query no status poll has happened while there is
\* no token; a results request has been sent in an operation only after a
\* status poll of that operation, and with the query not timed out; an
\* operation that ended with TimeoutError fetched and yielded nothing.
C26_ProtocolOrder ==
    Async =>
        /\ status_polled => query_token # None
        /\ n_results > 0 => (status_polled /\ ~timed_out /\ query_token # None)
        /\ outcome = "TimeoutError" => (n_results = 0 /\ yielded = <<>>)

\* A finished iteration with a timeout set that polled and yielded two items.
C26_Witness ==
    /\ Async /\ op = "search" /\ pc = "idle" /\ outcome = "done"
    /\ timeout # 0 /\ status_polled /\ Len(yielded) >= 2 /\ n_results >= 2

\* C27: in a synchronous iteration the start of every request after the first
\* is the first request's index (1 when start is omitted) plus the number of
\* items received so far, i.e. the previous start plus the size of the
\* previous page.
C27_Contiguous ==
    (Sync /\ op = "search" /\ pc = "fetch" /\ n_search >= 1)
        => args_start = (IF start = 0 THEN 1 ELSE start) + n_received

\* C29: on an async process query the count-valid flag becomes true only in
\* a step that receives a results response and never becomes false again;
\* while it is true the stored total is the num_available of the backend's
\* results responses; count() on a query whose flag is true returns the
\* stored total and sends nothing.
C29_CountValid ==
    /\ [][(Async /\ ~count_valid /\ count_valid') => n_results' > n_results]_vars
    /\ [][(Async /\ count_valid) => count_valid']_vars
    /\ [](Async /\ count_valid => total_results = num_available)
    /\ [][(Async /\ pc = "count" /\ count_valid)
            => (/\ pc' = "idle" /\ outcome' = "count"
                /\ ret' = total_results
                /\ UNCHANGED <<requests, fields>>)]_vars

\* The first count() of a query came after an iteration and was answered
\* from the stored total, with no request.
C29_Witness ==
    /\ Async /\ op = "count" /\ pc = "idle" /\ outcome = "count"
    /\ first_count = <<num_available, 0>> /\ num_available >= 2
    /\ ret = num_available /\ n_results = 0 /\ ~status_polled

\* C30: in the polling loop of an async process query a sleep lasts one poll
\* interval and is followed by the next poll; a poll is followed by a sleep
\* exactly when it reports the job still running; after the poll that
\* reports done or timed out the operation neither sleeps nor polls again.
C30_PollSleep ==
    /\ [][(Async /\ pc = "sleep")
            => (pc' = "poll" /\ now' = Min(now + PollInterval, MaxClock))]_vars
    /\ [][(Async /\ pc = "poll" /\ pc' # "poll")
            => (/\ pc' \in {"sleep", "check", "idle"}
                /\ pc' = "idle" => outcome' \in {"InvalidQuery"}
                /\ pc' # "idle" =>
                      ((pc' = "sleep") <=>
                          StillQuerying(searchers_contacted', searchers_completed',
                                        timeout, now - submit_time', timed_out).ret)
                /\ now' = now)]_vars
    /\ [][(Async /\ pc \in {"check", "fetch", "suspended"})
            => pc' \notin {"sleep", "poll"}]_vars

\* A polling loop that slept twice before the poll that reported done.
C30_Witness ==
    /\ Async /\ pc = "check" /\ ~timed_out /\ status_polled
    /\ now - submit_time >= 2 * PollInterval
    /\ searchers_contacted > 0 /\ searchers_completed >= searchers_contacted

\* C28: an iteration that repeats a finished one begins fetching at the
\* cursor start with the row counters 0 and nothing yielded, and when it
\* finishes it has yielded what the first one yielded; on the synchronous
\* query it sent its own validation; on the async query it sent neither
\* validation nor submission, kept the token of the one submission, and
\* polled the status before it fetched results.
C28_FreshIteration ==
    (first_run # <<>> /\ pc # "created") =>
        /\ (pc = "fetch" /\ Fetches = 0)
              => (/\ current = start /\ numrows = 0 /\ rows_fetched = 0
                  /\ yielded = <<>>)
        /\ (pc = "idle" /\ outcome = "done") => yielded = first_run[1]
        /\ Sync => (n_validate = 1 /\ n_submit = 0)
        /\ Async => (/\ n_validate = 0 /\ n_submit = 0
                     /\ query_token # None /\ total_submits = 1)
        /\ (Async /\ n_results > 0) => status_polled

\* An async query iterated from start 1 a second time, both runs yielding
\* the same two items over two pages.
C28_Witness ==
    /\ Async /\ first_run # <<>> /\ pc = "idle" /\ outcome = "done"
    /\ start = 1 /\ Len(yielded) = 2 /\ n_results = 2

UserQ == kind = "UserQuery"

\* C31: on a UserQuery the count is valid exactly once some execution has
\* fetched the user list, and the stored total is then the length of the
\* list fetched last; a count() on a valid count sends no request and returns
\* that length, a count() before sends one request; the first next() of
\* every iteration and every async run send one request and store the length
\* of the list they get.
C31_UserCount ==
    /\ [](UserQ => (count_valid <=> responses # <<>>))
    /\ []((UserQ /\ count_valid) => total_results = Len(responses[1]))
    /\ [][(UserQ /\ op' = "count" /\ nItems' = nItems) =>
            IF count_valid
            THEN /\ n_search' = 0 /\ responses' = responses
                 /\ ret' = Len(responses[1])
            ELSE /\ n_search' = 1 /\ responses' = <<Execute>>
                 /\ ret' = nItems]_vars
    /\ [][(/\ UserQ
           /\ \/ pc = "created" /\ pc' # "created"
              \/ op' = "run_async" /\ nItems' = nItems)
            => (/\ n_search' = 1 /\ responses' = <<Execute>>
                /\ total_results' = nItems /\ count_valid')]_vars

\* A count() between two items of an iteration, after the organization's
\* users changed: no request, and the length of the list fetched last.
C31_Witness ==
    /\ UserQ /\ op = "count" /\ outcome = "count" /\ n_search = 0
    /\ pc = "suspended" /\ count_valid
    /\ ret = Len(responses[1]) /\ ret # nItems /\ ret >= 2

====
